---------------------------- MODULE Spec2Model ----------------------------
(***************************************************************************)
(* A model of tree/ntuple/v7/inc/ROOT/RNTupleView.hxx: the two index       *)
(* ranges (RNTupleGlobalRange, RNTupleClusterRange), the typed view        *)
(* RNTupleView<T>, the type-erased view RNTupleView<void> and              *)
(* RNTupleCollectionView.                                                  *)
(*                                                                         *)
(* The header only declares how the views use their collaborators (RField, *)
(* RValue, RClusterIndex, the descriptor, the page source); the            *)
(* collaborators' own code lives in other headers.  Their behaviour is     *)
(* modelled from their documented contract and is marked as such below.    *)
(***************************************************************************)
EXTENDS Integers, Sequences, FiniteSets

VARIABLES
    grange,   \* the RNTupleGlobalRange being iterated
    git,      \* the loop's RNTupleGlobalRange::RIterator
    gout,     \* the values the current pass over grange has yielded
    gprev,    \* the values the previous complete pass yielded
    gpc,      \* "idle" | "loop" | "done": the position of the range-for loop
    gpass,    \* the number of passes begun
    crange,   \* the RNTupleClusterRange being iterated
    cit,      \* the loop's RNTupleClusterRange::RIterator
    cout,     \* the indices the current pass over crange has yielded
    cprev,    \* the indices the previous complete pass yielded
    cpc,      \* "idle" | "loop" | "done"
    cpass,    \* the number of passes begun
    coll,     \* the caller's RNTupleCollectionView, or NoView
    view,     \* the caller's RNTupleView<T> / RNTupleView<void>, or NoView
    last      \* the outcome of the last call made on a view

gvars == <<grange, git, gout, gprev, gpc, gpass>>
cvars == <<crange, cit, cout, cprev, cpc, cpass>>
vvars == <<coll, view, last>>
vars == <<grange, git, gout, gprev, gpc, gpass,
          crange, cit, cout, cprev, cpc, cpass, coll, view, last>>

(***************************************************************************)
(* Bounds of the model.                                                    *)
(***************************************************************************)
\* Largest index value; NTupleSize_t and ClusterSize_t::ValueType are
\* unsigned integers, modelled as 0..MaxIndex with wrap-around.
MaxIndex == 3
\* Largest cluster id handed to a range or reported by a field.
MaxCluster == 1
\* How many times one range object is iterated.
MaxPasses == 2

IndexMod == MaxIndex + 1
NTupleSize_t == 0 .. MaxIndex
ClusterIds == 0 .. MaxCluster

\* NTupleSize_t(-1): the value of a default-constructed iterator.
kInvalidNTupleIndex == IndexMod - 1

(***************************************************************************)
(* RNTupleGlobalRange and its RIterator.                                   *)
(***************************************************************************)
RNTupleGlobalRange(start, end) == [fStart |-> start, fEnd |-> end]

GlobalRIterator(index) == [fIndex |-> index]

GlobalRange_begin(r) == GlobalRIterator(r.fStart)

\* An end() that is one past the bound: an inclusive upper bound.
GlobalRange_end_Inclusive(r) == GlobalRIterator((r.fEnd + 1) % IndexMod)

GlobalRange_end(r) == GlobalRIterator(r.fEnd)

\* operator++ (prefix and postfix both leave the iterator at fIndex + 1)
GlobalRIterator_Inc(it) == [it EXCEPT !.fIndex = (@ + 1) % IndexMod]

GlobalRIterator_Deref(it) == it.fIndex

GlobalRIterator_Neq(a, b) == a.fIndex # b.fIndex

(***************************************************************************)
(* RClusterIndex (ROOT/RNTupleUtil.hxx): a pair (cluster id, index in      *)
(* cluster); ++ advances the index within the same cluster; == compares    *)
(* the pair.                                                               *)
(***************************************************************************)
RClusterIndex(clusterId, index) == [fClusterId |-> clusterId, fIndex |-> index]

RClusterIndex_Inc(ci) == [ci EXCEPT !.fIndex = (@ + 1) % IndexMod]

RClusterIndex_Neq(a, b) == a.fClusterId # b.fClusterId \/ a.fIndex # b.fIndex

(***************************************************************************)
(* RNTupleClusterRange and its RIterator.                                  *)
(***************************************************************************)
RNTupleClusterRange(clusterId, start, end) ==
    [fClusterId |-> clusterId, fStart |-> start, fEnd |-> end]

ClusterRIterator(index) == [fIndex |-> index]

\* A begin() that drops the range's cluster id (a default cluster id).
ClusterRange_begin_NoCluster(r) == ClusterRIterator(RClusterIndex(0, r.fStart))

ClusterRange_begin(r) == ClusterRIterator(RClusterIndex(r.fClusterId, r.fStart))

ClusterRange_end(r) == ClusterRIterator(RClusterIndex(r.fClusterId, r.fEnd))

ClusterRIterator_Inc(it) == [it EXCEPT !.fIndex = RClusterIndex_Inc(@)]

ClusterRIterator_Deref(it) == it.fIndex

ClusterRIterator_Neq(a, b) == RClusterIndex_Neq(a.fIndex, b.fIndex)

\* The indices a range-for loop over a cluster range yields, computed with
\* the range's own begin/end/++/!=.
RECURSIVE ClusterIterateFrom(_, _, _)
ClusterIterateFrom(it, stop, acc) ==
    IF ClusterRIterator_Neq(it, stop)
    THEN ClusterIterateFrom(ClusterRIterator_Inc(it), stop,
                            Append(acc, ClusterRIterator_Deref(it)))
    ELSE acc

ClusterIterate(r) == ClusterIterateFrom(ClusterRange_begin(r), ClusterRange_end(r), <<>>)

(***************************************************************************)
(* The caller's loop over a global range,                                  *)
(*     for (auto it = r.begin(); it != r.end(); ++it) yield *it;           *)
(* run MaxPasses times over the same range object.                         *)
(***************************************************************************)
GlobalLoopBegin ==
    /\ gpc \in {"idle", "done"}
    /\ gpass < MaxPasses
    /\ git' = GlobalRange_begin(grange)
    /\ gprev' = gout
    /\ gout' = <<>>
    /\ gpc' = "loop"
    /\ gpass' = gpass + 1
    /\ UNCHANGED <<grange, cvars, vvars>>

GlobalLoopStep ==
    /\ gpc = "loop"
    /\ GlobalRIterator_Neq(git, GlobalRange_end(grange))
    /\ gout' = Append(gout, GlobalRIterator_Deref(git))
    /\ git' = GlobalRIterator_Inc(git)
    /\ UNCHANGED <<grange, gprev, gpc, gpass, cvars, vvars>>

GlobalLoopExit ==
    /\ gpc = "loop"
    /\ ~GlobalRIterator_Neq(git, GlobalRange_end(grange))
    /\ gpc' = "done"
    /\ UNCHANGED <<grange, git, gout, gprev, gpass, cvars, vvars>>

(***************************************************************************)
(* The same loop over a cluster range.                                     *)
(***************************************************************************)
ClusterLoopBegin ==
    /\ cpc \in {"idle", "done"}
    /\ cpass < MaxPasses
    /\ cit' = ClusterRange_begin(crange)
    /\ cprev' = cout
    /\ cout' = <<>>
    /\ cpc' = "loop"
    /\ cpass' = cpass + 1
    /\ UNCHANGED <<crange, gvars, vvars>>

ClusterLoopStep ==
    /\ cpc = "loop"
    /\ ClusterRIterator_Neq(cit, ClusterRange_end(crange))
    /\ cout' = Append(cout, ClusterRIterator_Deref(cit))
    /\ cit' = ClusterRIterator_Inc(cit)
    /\ UNCHANGED <<crange, cprev, cpc, cpass, gvars, vvars>>

ClusterLoopExit ==
    /\ cpc = "loop"
    /\ ~ClusterRIterator_Neq(cit, ClusterRange_end(crange))
    /\ cpc' = "done"
    /\ UNCHANGED <<crange, cit, cout, cprev, cpass, gvars, vvars>>

(***************************************************************************)
(* The dataset the views read: the descriptor's field table and the        *)
(* columns' content.  Field ids are positions in FieldTable; parent        *)
(* RootFieldId marks a top-level field.  clusters[k] is the number of the  *)
(* field's elements stored in cluster k-1; for a collection, sizes[i+1] is  *)
(* the number of children of instance i, stored from the start of the      *)
(* instance's cluster on.                                                  *)
(***************************************************************************)
kInvalidDescriptorId == -1

RootFieldId == 0

FieldTable ==
    << [name |-> "jets",  parent |-> 0, type |-> "collection", clusters |-> <<1, 1>>,
        sizes |-> <<2, 1>>],
       [name |-> "pt",    parent |-> 1, type |-> "float",      clusters |-> <<2, 1>>,
        sizes |-> <<>>],
       [name |-> "tag",   parent |-> 1, type |-> "string",     clusters |-> <<2, 1>>,
        sizes |-> <<>>],
       [name |-> "hits",  parent |-> 1, type |-> "collection", clusters |-> <<2, 1>>,
        sizes |-> <<1, 2, 3>>],
       [name |-> "muons", parent |-> 0, type |-> "collection", clusters |-> <<1, 1>>,
        sizes |-> <<1, 1>>],
       [name |-> "pt",    parent |-> 5, type |-> "float",      clusters |-> <<1, 1>>,
        sizes |-> <<>>],
       [name |-> "eta",   parent |-> 5, type |-> "float",      clusters |-> <<1, 1>>,
        sizes |-> <<>>] >>

FieldIds == 1 .. Len(FieldTable)

FieldNames == {"jets", "pt", "tag", "hits", "muons", "eta", "missing"}

\* The element types a caller instantiates RNTupleView<T> with.
ViewTypes == {"float", "string", "void"}

\* RNTupleDescriptor::GetName(): the ntuple's name.
GetName == "Events"

\* RNTupleDescriptor::GetFieldDescriptor(fieldId).GetFieldName()
GetFieldName(fieldId) == FieldTable[fieldId].name

\* RNTupleDescriptor::FindFieldId(fieldName, parentId)
FindFieldId(fieldName, parentId) ==
    LET hits == {f \in FieldIds : /\ FieldTable[f].name = fieldName
                                  /\ FieldTable[f].parent = parentId}
    IN  IF hits = {} THEN kInvalidDescriptorId ELSE CHOOSE f \in hits : TRUE

RECURSIVE SumUpTo(_, _)
SumUpTo(seq, n) == IF n = 0 THEN 0 ELSE seq[n] + SumUpTo(seq, n - 1)

\* RFieldBase::GetNElements(): the field's element count.
GetNElements(f) == SumUpTo(FieldTable[f.fOnDiskId].clusters,
                           Len(FieldTable[f.fOnDiskId].clusters))

\* The value stored at global index i of the field with id fieldId.
Data(fieldId, i) == 10 * fieldId + i

\* Whether a cluster index names an element of the field.
InCluster(f, ci) ==
    LET cl == FieldTable[f.fOnDiskId].clusters
    IN  /\ ci.fClusterId + 1 \in 1 .. Len(cl)
        /\ ci.fIndex < cl[ci.fClusterId + 1]

\* The global index of an element named by a cluster index.
GlobalOf(f, ci) == SumUpTo(FieldTable[f.fOnDiskId].clusters, ci.fClusterId) + ci.fIndex

(***************************************************************************)
(* RField<T> and RFieldBase, as the views use them.                        *)
(***************************************************************************)
\* Whether RField<T> sets kTraitMappable and has Map(): Internal::isMappable.
isMappable(T) == T \in {"float", "ClusterSize_t"}

\* RField<T>(name): a fresh field without parent, not yet connected.
RField(T, name) ==
    [fName |-> name, fOnDiskId |-> kInvalidDescriptorId,
     mappable |-> isMappable(T), callbacks |-> FALSE, connected |-> FALSE]

\* RFieldDescriptor::CreateField(desc): the field of the on-disk type.
CreateField(fieldId) == RField(FieldTable[fieldId].type, FieldTable[fieldId].name)

SetOnDiskId(f, fieldId) == [f EXCEPT !.fOnDiskId = fieldId]

\* Internal::CallConnectPageSourceOnField: binds the field to its columns;
\* connecting is where a field may get read callbacks attached (cb).
CallConnectPageSourceOnField(f, cb) == [f EXCEPT !.connected = TRUE, !.callbacks = cb]

HasReadCallbacks(f) == f.callbacks

\* RFieldBase::CreateValue(): a holder with a default-constructed object.
DefaultContent == 0

CreateValue(f) == DefaultContent

\* RField<T>::Map(globalIndex): a pointer into the page, or an exception.
MapGlobal(f, i) ==
    IF i < GetNElements(f)
    THEN [status |-> "ok", ref |-> <<Data(f.fOnDiskId, i)>>]
    ELSE [status |-> "OutOfRange", ref |-> <<>>]

\* RField<T>::Map(clusterIndex)
MapCluster(f, ci) ==
    IF InCluster(f, ci)
    THEN [status |-> "ok", ref |-> <<Data(f.fOnDiskId, GlobalOf(f, ci))>>]
    ELSE [status |-> "OutOfRange", ref |-> <<>>]

\* RValue::Read(globalIndex): fills the holder in place, or throws and
\* leaves it as it is.
ReadGlobal(f, holder, i) ==
    IF i < GetNElements(f)
    THEN [status |-> "ok", fValue |-> Data(f.fOnDiskId, i)]
    ELSE [status |-> "OutOfRange", fValue |-> holder]

\* RValue::Read(clusterIndex)
ReadCluster(f, holder, ci) ==
    IF InCluster(f, ci)
    THEN [status |-> "ok", fValue |-> Data(f.fOnDiskId, GlobalOf(f, ci))]
    ELSE [status |-> "OutOfRange", fValue |-> holder]

\* The children of a collection's instances g-n .. g-1.
RECURSIVE SumBefore(_, _, _)
SumBefore(seq, g, n) == IF n = 0 THEN 0 ELSE seq[g] + SumBefore(seq, g - 1, n - 1)

\* Where the children of the instance at cluster index ci start: behind
\* the children of the earlier instances of the same cluster.
ChildStart(f, ci) ==
    RClusterIndex(ci.fClusterId,
                  SumBefore(FieldTable[f.fOnDiskId].sizes, GlobalOf(f, ci), ci.fIndex))

\* The cluster index of the element at global index i.
RECURSIVE ClusterIndexFrom(_, _, _)
ClusterIndexFrom(cl, c, i) ==
    IF i < cl[c + 1] THEN RClusterIndex(c, i) ELSE ClusterIndexFrom(cl, c + 1, i - cl[c + 1])

ClusterIndexOf(f, i) == ClusterIndexFrom(FieldTable[f.fOnDiskId].clusters, 0, i)

\* RField<ClusterSize_t>::GetCollectionInfo(globalIndex, &collectionStart,
\* &size): for an instance the field holds it reports where the instance's
\* children start and how many they are; for an index it does not hold it
\* throws.
GetCollectionInfoGlobal(f, i) ==
    IF i < GetNElements(f)
    THEN [status |-> "ok", collectionStart |-> ChildStart(f, ClusterIndexOf(f, i)),
          size |-> FieldTable[f.fOnDiskId].sizes[i + 1]]
    ELSE [status |-> "OutOfRange"]

\* RField<ClusterSize_t>::GetCollectionInfo(clusterIndex, &collectionStart, &size)
GetCollectionInfoCluster(f, ci) ==
    IF InCluster(f, ci)
    THEN [status |-> "ok", collectionStart |-> ChildStart(f, ci),
          size |-> FieldTable[f.fOnDiskId].sizes[GlobalOf(f, ci) + 1]]
    ELSE [status |-> "OutOfRange"]

(***************************************************************************)
(* The views.  A constructor yields                                        *)
(*   status     "ok", or the kind of the RException thrown,                *)
(*   msg        the exception's message, as the pieces concatenated,       *)
(*   view       the view constructed (NoView when the constructor threw),  *)
(*   connected  whether CallConnectPageSourceOnField ran.                  *)
(***************************************************************************)
NoView == [T |-> "none"]

DisallowedMsg == <<"view disallowed on field with mappable type and read callback">>

\* RNTupleView<T>::RNTupleView with the check moved in front of the connect.
TypedViewCtor_CheckFirst(fieldId, T, cb) ==
    LET f0 == SetOnDiskId(RField(T, GetFieldName(fieldId)), fieldId)
        f1 == CallConnectPageSourceOnField(f0, cb)
    IN  IF f0.mappable /\ cb
        THEN [status |-> "IncompatibleView", msg |-> DisallowedMsg,
              view |-> NoView, connected |-> FALSE]
        ELSE [status |-> "ok", msg |-> <<>>,
              view |-> [T |-> T, fField |-> f1, fValue |-> CreateValue(f0)],
              connected |-> TRUE]

\* RNTupleView<T>::RNTupleView without the mappable-with-callback check.
TypedViewCtor_NoCheck(fieldId, T, cb) ==
    LET f0 == SetOnDiskId(RField(T, GetFieldName(fieldId)), fieldId)
        f1 == CallConnectPageSourceOnField(f0, cb)
    IN  [status |-> "ok", msg |-> <<>>,
         view |-> [T |-> T, fField |-> f1, fValue |-> CreateValue(f0)],
         connected |-> TRUE]

\* RNTupleView<T>::RNTupleView(fieldId, pageSource)
TypedViewCtor(fieldId, T, cb) ==
    LET f0 == RField(T, GetFieldName(fieldId))
        v0 == CreateValue(f0)
        f1 == SetOnDiskId(f0, fieldId)
        f2 == CallConnectPageSourceOnField(f1, cb)
    IN  IF f2.mappable /\ HasReadCallbacks(f2)
        THEN [status |-> "IncompatibleView", msg |-> DisallowedMsg,
              view |-> NoView, connected |-> f2.connected]
        ELSE [status |-> "ok", msg |-> <<>>,
              view |-> [T |-> T, fField |-> f2, fValue |-> v0],
              connected |-> f2.connected]

\* RNTupleView<void>::RNTupleView with the typed view's check added.
VoidViewCtor_Checked(fieldId, cb) ==
    LET f0 == SetOnDiskId(CreateField(fieldId), fieldId)
        f1 == CallConnectPageSourceOnField(f0, cb)
    IN  IF f1.mappable /\ HasReadCallbacks(f1)
        THEN [status |-> "IncompatibleView", msg |-> DisallowedMsg,
              view |-> NoView, connected |-> f1.connected]
        ELSE [status |-> "ok", msg |-> <<>>,
              view |-> [T |-> "void", fField |-> f1, fValue |-> CreateValue(f0)],
              connected |-> f1.connected]

\* RNTupleView<void>::RNTupleView(fieldId, pageSource)
VoidViewCtor(fieldId, cb) ==
    LET f0 == CreateField(fieldId)
        v0 == CreateValue(f0)
        f1 == SetOnDiskId(f0, fieldId)
        f2 == CallConnectPageSourceOnField(f1, cb)
    IN  [status |-> "ok", msg |-> <<>>,
         view |-> [T |-> "void", fField |-> f2, fValue |-> v0],
         connected |-> f2.connected]

\* RNTupleCollectionView::RNTupleCollectionView(fieldId, source)
CollectionViewCtor(fieldId, cb) ==
    LET base == TypedViewCtor(fieldId, "ClusterSize_t", cb)
    IN  IF base.status = "ok"
        THEN [base EXCEPT !.view = [T |-> base.view.T, fField |-> base.view.fField,
                                    fValue |-> base.view.fValue,
                                    fCollectionFieldId |-> fieldId]]
        ELSE base

NotFound(fieldName) ==
    [status |-> "FieldNotFound",
     msg |-> <<"no field named '", fieldName, "' in RNTuple '", GetName, "'">>,
     view |-> NoView, connected |-> FALSE]

\* GetView<T> resolving the name in the whole dataset instead of under
\* the collection.
GetView_AnyScope(c, fieldName, T, cb) ==
    LET hits == {f \in FieldIds : FieldTable[f].name = fieldName}
        fieldId == IF hits = {} THEN kInvalidDescriptorId ELSE CHOOSE f \in hits : TRUE
    IN  IF fieldId = kInvalidDescriptorId THEN NotFound(fieldName)
        ELSE IF T = "void" THEN VoidViewCtor(fieldId, cb)
        ELSE TypedViewCtor(fieldId, T, cb)

\* RNTupleCollectionView::GetView<T>(fieldName)
GetView(c, fieldName, T, cb) ==
    LET fieldId == FindFieldId(fieldName, c.fCollectionFieldId)
    IN  IF fieldId = kInvalidDescriptorId THEN NotFound(fieldName)
        ELSE IF T = "void" THEN VoidViewCtor(fieldId, cb)
        ELSE TypedViewCtor(fieldId, T, cb)

\* RNTupleCollectionView::GetCollectionView(fieldName)
GetCollectionView(c, fieldName, cb) ==
    LET fieldId == FindFieldId(fieldName, c.fCollectionFieldId)
    IN  IF fieldId = kInvalidDescriptorId THEN NotFound(fieldName)
        ELSE CollectionViewCtor(fieldId, cb)

\* RNTupleView<T>::GetFieldRange() and RNTupleView<void>::GetFieldRange()
GetFieldRange(v) == RNTupleGlobalRange(0, GetNElements(v.fField))

(***************************************************************************)
(* operator().  A call yields the status, the view after the call and the  *)
(* reference returned: into the page ("page", with the element's global    *)
(* index), into the view's own holder ("fValue"), or none.                 *)
(***************************************************************************)
NoRef == [into |-> "none"]

PageRef(m) == IF m.status = "ok" THEN [into |-> "page", content |-> m.ref[1]] ELSE NoRef

HolderRef(r) == IF r.status = "ok" THEN [into |-> "fValue"] ELSE NoRef

\* operator() reducing the index modulo the element count.
TypedCallGlobal_Wrapped(v, i) ==
    LET j == i % GetNElements(v.fField)
    IN  IF isMappable(v.T)
        THEN LET m == MapGlobal(v.fField, j)
             IN  [status |-> m.status, view |-> v, ref |-> PageRef(m)]
        ELSE LET r == ReadGlobal(v.fField, v.fValue, j)
             IN  [status |-> r.status, view |-> [v EXCEPT !.fValue = r.fValue],
                  ref |-> HolderRef(r)]

\* operator() returning the holder without reading into it.
TypedCallGlobal_NoRead(v, i) ==
    IF isMappable(v.T)
    THEN LET m == MapGlobal(v.fField, i)
         IN  [status |-> m.status, view |-> v, ref |-> PageRef(m)]
    ELSE [status |-> "ok", view |-> v, ref |-> [into |-> "fValue"]]

\* RNTupleView<T>::operator()(NTupleSize_t globalIndex)
TypedCallGlobal(v, i) ==
    IF isMappable(v.T)
    THEN LET m == MapGlobal(v.fField, i)
         IN  [status |-> m.status, view |-> v, ref |-> PageRef(m)]
    ELSE LET r == ReadGlobal(v.fField, v.fValue, i)
         IN  [status |-> r.status, view |-> [v EXCEPT !.fValue = r.fValue],
              ref |-> HolderRef(r)]

\* RNTupleView<T>::operator()(RClusterIndex clusterIndex)
TypedCallCluster(v, ci) ==
    IF isMappable(v.T)
    THEN LET m == MapCluster(v.fField, ci)
         IN  [status |-> m.status, view |-> v, ref |-> PageRef(m)]
    ELSE LET r == ReadCluster(v.fField, v.fValue, ci)
         IN  [status |-> r.status, view |-> [v EXCEPT !.fValue = r.fValue],
              ref |-> HolderRef(r)]

\* operator() clearing the holder before it reads.
VoidCallGlobal_ResetFirst(v, i) ==
    LET r == ReadGlobal(v.fField, DefaultContent, i)
    IN  [status |-> r.status, view |-> [v EXCEPT !.fValue = r.fValue], ref |-> NoRef]

\* RNTupleView<void>::operator()(NTupleSize_t globalIndex)
VoidCallGlobal(v, i) ==
    LET r == ReadGlobal(v.fField, v.fValue, i)
    IN  [status |-> r.status, view |-> [v EXCEPT !.fValue = r.fValue], ref |-> NoRef]

\* RNTupleView<void>::operator()(RClusterIndex clusterIndex)
VoidCallCluster(v, ci) ==
    LET r == ReadCluster(v.fField, v.fValue, ci)
    IN  [status |-> r.status, view |-> [v EXCEPT !.fValue = r.fValue], ref |-> NoRef]

(***************************************************************************)
(* RNTupleCollectionView: the range of an instance's children, and its     *)
(* size.                                                                   *)
(***************************************************************************)
\* RClusterIndex::GetClusterId(), GetIndex()
GetClusterId(ci) == ci.fClusterId

GetIndex(ci) == ci.fIndex

\* The range the view packages from what the field reported.
RangeOfInfo(info) ==
    RNTupleClusterRange(GetClusterId(info.collectionStart),
                        GetIndex(info.collectionStart),
                        (GetIndex(info.collectionStart) + info.size) % IndexMod)

\* A range that takes the size for the end bound.
GetCollectionRangeGlobal_SizeAsEnd(c, i) ==
    LET info == GetCollectionInfoGlobal(c.fField, i)
    IN  IF info.status # "ok" THEN [status |-> info.status]
        ELSE [status |-> "ok", info |-> info,
              range |-> RNTupleClusterRange(GetClusterId(info.collectionStart),
                                            GetIndex(info.collectionStart), info.size)]

\* RNTupleCollectionView::GetCollectionRange(NTupleSize_t globalIndex)
GetCollectionRangeGlobal(c, i) ==
    LET info == GetCollectionInfoGlobal(c.fField, i)
    IN  IF info.status # "ok" THEN [status |-> info.status]
        ELSE [status |-> "ok", info |-> info, range |-> RangeOfInfo(info)]

\* RNTupleCollectionView::GetCollectionRange(RClusterIndex clusterIndex)
GetCollectionRangeCluster(c, ci) ==
    LET info == GetCollectionInfoCluster(c.fField, ci)
    IN  IF info.status # "ok" THEN [status |-> info.status]
        ELSE [status |-> "ok", info |-> info, range |-> RangeOfInfo(info)]

\* RNTupleCollectionView::operator()(NTupleSize_t globalIndex)
CollectionCallGlobal(c, i) ==
    LET info == GetCollectionInfoGlobal(c.fField, i)
    IN  IF info.status # "ok" THEN [status |-> info.status]
        ELSE [status |-> "ok", size |-> info.size]

\* RNTupleCollectionView::operator()(RClusterIndex clusterIndex)
CollectionCallCluster(c, ci) ==
    LET info == GetCollectionInfoCluster(c.fField, ci)
    IN  IF info.status # "ok" THEN [status |-> info.status]
        ELSE [status |-> "ok", size |-> info.size]

(***************************************************************************)
(* The calls a caller makes.  last records the call and its outcome.       *)
(***************************************************************************)
Outcome(op, fieldName, T, scope, cb, res) ==
    [op |-> op, name |-> fieldName, T |-> T, scope |-> scope, cb |-> cb,
     status |-> res.status, msg |-> res.msg, connected |-> res.connected,
     constructed |-> res.view # NoView]

\* RNTupleReader::GetViewCollection(fieldName): the reader resolves a
\* top-level collection and constructs its view.
OnReaderGetViewCollection ==
    \E fieldName \in FieldNames, cb \in BOOLEAN :
        LET fieldId == FindFieldId(fieldName, RootFieldId)
            res == CollectionViewCtor(fieldId, cb)
        IN  /\ fieldId # kInvalidDescriptorId
            /\ FieldTable[fieldId].type = "collection"
            /\ coll' = IF res.status = "ok" THEN res.view ELSE coll
            /\ last' = Outcome("GetViewCollection", fieldName, "ClusterSize_t",
                               RootFieldId, cb, res)
            /\ UNCHANGED <<view, gvars, cvars>>

\* A caller asks for RNTupleView<T> with the field's own element type, or
\* for RNTupleView<void>.
OnGetView ==
    /\ coll # NoView
    /\ \E fieldName \in FieldNames, T \in ViewTypes, cb \in BOOLEAN :
        LET fieldId == FindFieldId(fieldName, coll.fCollectionFieldId)
            res == GetView(coll, fieldName, T, cb)
        IN  /\ fieldId # kInvalidDescriptorId
                => (T = "void" \/ T = FieldTable[fieldId].type)
            /\ view' = IF res.status = "ok" THEN res.view ELSE view
            /\ last' = Outcome("GetView", fieldName, T, coll.fCollectionFieldId, cb, res)
            /\ UNCHANGED <<coll, gvars, cvars>>

OnGetCollectionView ==
    /\ coll # NoView
    /\ \E fieldName \in FieldNames, cb \in BOOLEAN :
        LET fieldId == FindFieldId(fieldName, coll.fCollectionFieldId)
            res == GetCollectionView(coll, fieldName, cb)
        IN  /\ fieldId # kInvalidDescriptorId
                => FieldTable[fieldId].type = "collection"
            /\ coll' = IF res.status = "ok" THEN res.view ELSE coll
            /\ last' = Outcome("GetCollectionView", fieldName, "ClusterSize_t",
                               coll.fCollectionFieldId, cb, res)
            /\ UNCHANGED <<view, gvars, cvars>>

OnGetFieldRange ==
    /\ view # NoView
    /\ last' = [op |-> "GetFieldRange", range |-> GetFieldRange(view)]
    /\ UNCHANGED <<coll, view, gvars, cvars>>

OnCallGlobal ==
    /\ view # NoView
    /\ \E i \in NTupleSize_t :
        LET res == IF view.T = "void" THEN VoidCallGlobal(view, i)
                   ELSE TypedCallGlobal(view, i)
        IN  /\ view' = res.view
            /\ last' = [op |-> "Call", overload |-> "global", index |-> i,
                        status |-> res.status, ref |-> res.ref]
    /\ UNCHANGED <<coll, gvars, cvars>>

OnCallCluster ==
    /\ view # NoView
    /\ \E c \in ClusterIds, k \in NTupleSize_t :
        LET ci == RClusterIndex(c, k)
            res == IF view.T = "void" THEN VoidCallCluster(view, ci)
                   ELSE TypedCallCluster(view, ci)
        IN  /\ view' = res.view
            /\ last' = [op |-> "Call", overload |-> "cluster", index |-> ci,
                        status |-> res.status, ref |-> res.ref]
    /\ UNCHANGED <<coll, gvars, cvars>>

RangeOutcome(overload, res) ==
    IF res.status = "ok"
    THEN [op |-> "GetCollectionRange", overload |-> overload, status |-> "ok",
          info |-> res.info, range |-> res.range]
    ELSE [op |-> "GetCollectionRange", overload |-> overload, status |-> res.status]

OnGetCollectionRangeGlobal ==
    /\ coll # NoView
    /\ \E i \in NTupleSize_t :
        last' = RangeOutcome("global", GetCollectionRangeGlobal(coll, i))
    /\ UNCHANGED <<coll, view, gvars, cvars>>

OnGetCollectionRangeCluster ==
    /\ coll # NoView
    /\ \E c \in ClusterIds, k \in NTupleSize_t :
        last' = RangeOutcome("cluster", GetCollectionRangeCluster(coll, RClusterIndex(c, k)))
    /\ UNCHANGED <<coll, view, gvars, cvars>>

SizeOutcome(overload, res) ==
    IF res.status = "ok"
    THEN [op |-> "CollectionCall", overload |-> overload, status |-> "ok",
          size |-> res.size]
    ELSE [op |-> "CollectionCall", overload |-> overload, status |-> res.status]

OnCollectionCallGlobal ==
    /\ coll # NoView
    /\ \E i \in NTupleSize_t :
        last' = SizeOutcome("global", CollectionCallGlobal(coll, i))
    /\ UNCHANGED <<coll, view, gvars, cvars>>

OnCollectionCallCluster ==
    /\ coll # NoView
    /\ \E c \in ClusterIds, k \in NTupleSize_t :
        last' = SizeOutcome("cluster", CollectionCallCluster(coll, RClusterIndex(c, k)))
    /\ UNCHANGED <<coll, view, gvars, cvars>>

(***************************************************************************)
(* Initial states and specifications.                                      *)
(***************************************************************************)
GlobalIdle ==
    /\ git = GlobalRIterator(kInvalidNTupleIndex)
    /\ gout = <<>>
    /\ gprev = <<>>
    /\ gpc = "idle"
    /\ gpass = 0

ClusterIdle ==
    /\ cit = ClusterRIterator(RClusterIndex(0, 0))
    /\ cout = <<>>
    /\ cprev = <<>>
    /\ cpc = "idle"
    /\ cpass = 0

NoViews ==
    /\ coll = NoView
    /\ view = NoView
    /\ last = [op |-> "none"]

\* Iterating any RNTupleGlobalRange(start, end).
InitGlobalRange ==
    /\ grange \in {RNTupleGlobalRange(s, e) : s \in NTupleSize_t, e \in NTupleSize_t}
    /\ GlobalIdle
    /\ crange = RNTupleClusterRange(0, 0, 0)
    /\ ClusterIdle
    /\ NoViews

NextGlobalRange == GlobalLoopBegin \/ GlobalLoopStep \/ GlobalLoopExit

SpecGlobalRange == InitGlobalRange /\ [][NextGlobalRange]_vars

\* Iterating any RNTupleClusterRange(clusterId, start, end).
InitClusterRange ==
    /\ grange = RNTupleGlobalRange(0, 0)
    /\ GlobalIdle
    /\ crange \in {RNTupleClusterRange(c, s, e) :
                       c \in ClusterIds, s \in NTupleSize_t, e \in NTupleSize_t}
    /\ ClusterIdle
    /\ NoViews

NextClusterRange == ClusterLoopBegin \/ ClusterLoopStep \/ ClusterLoopExit

SpecClusterRange == InitClusterRange /\ [][NextClusterRange]_vars

\* Using the views of one page source.
Init ==
    /\ grange = RNTupleGlobalRange(0, 0)
    /\ GlobalIdle
    /\ crange = RNTupleClusterRange(0, 0, 0)
    /\ ClusterIdle
    /\ NoViews

Next ==
    \/ OnReaderGetViewCollection
    \/ OnGetView
    \/ OnGetCollectionView
    \/ OnGetFieldRange
    \/ OnCallGlobal
    \/ OnCallCluster
    \/ OnGetCollectionRangeGlobal
    \/ OnGetCollectionRangeCluster
    \/ OnCollectionCallGlobal
    \/ OnCollectionCallCluster

Spec == Init /\ [][Next]_vars

(***************************************************************************)
(* Properties.                                                             *)
(***************************************************************************)
ExpectedGlobal(start, end) == [k \in 1 .. (end - start) |-> start + k - 1]

IsPrefix(p, q) == Len(p) <= Len(q) /\ \A k \in 1 .. Len(p) : p[k] = q[k]

\* C1: for start <= end, the stop-at-end loop over RNTupleGlobalRange(start,
\* end) never yields more than end-start values, what it has yielded is
\* always the beginning of start, start+1, ..., end-1 with the iterator at
\* the next value (so the loop ends after end-start steps), a finished pass
\* has yielded exactly start, ..., end-1, and a later pass over the same
\* range object yields the same sequence as the pass before it.
C1_GlobalRangeYields ==
    grange.fStart <= grange.fEnd =>
        LET want == ExpectedGlobal(grange.fStart, grange.fEnd)
        IN  /\ IsPrefix(gout, want)
            /\ gpc = "loop" => GlobalRIterator_Deref(git) = grange.fStart + Len(gout)
            /\ gpc = "done" => gout = want
            /\ gpass >= 2 => gprev = want

C1_Witness ==
    /\ gpc = "done"
    /\ gpass = 2
    /\ grange.fStart = 1
    /\ gout = <<1, 2>>
    /\ gprev = gout

\* C2: for start <= end, the loop over RNTupleClusterRange(c, start, end)
\* yields (c,start), (c,start+1), ..., (c,end-1): the k-th index yielded is
\* (c, start+k-1), no more than end-start are yielded, and a finished pass
\* has yielded end-start of them.
C2_ClusterRangeYields ==
    crange.fStart <= crange.fEnd =>
        /\ Len(cout) <= crange.fEnd - crange.fStart
        /\ \A k \in 1 .. Len(cout) :
               cout[k] = RClusterIndex(crange.fClusterId, crange.fStart + k - 1)
        /\ cpc = "done" => Len(cout) = crange.fEnd - crange.fStart

C2_Witness ==
    /\ cpc = "done"
    /\ crange.fClusterId = 1
    /\ Len(cout) = 2
    /\ cout[2] = RClusterIndex(1, crange.fStart + 1)

IsTypedCtorCall ==
    \/ last.op = "GetView" /\ last.T # "void"
    \/ last.op \in {"GetCollectionView", "GetViewCollection"}

\* C3: constructing RNTupleView<T> over a mappable field succeeds when the
\* field has no read callback and fails with the "view disallowed" error
\* when it has one; no typed view (collection views included) exists whose
\* field is mappable and has a read callback.
C3_TypedViewDisallowed ==
    /\ (IsTypedCtorCall /\ last.status # "FieldNotFound" /\ isMappable(last.T))
           => /\ last.status = IF last.cb THEN "IncompatibleView" ELSE "ok"
              /\ last.constructed = ~last.cb
              /\ last.cb => last.msg = DisallowedMsg
    /\ (view # NoView /\ view.T # "void")
           => ~(view.fField.mappable /\ HasReadCallbacks(view.fField))
    /\ coll # NoView => ~(coll.fField.mappable /\ HasReadCallbacks(coll.fField))

C3_Witness ==
    /\ last.op = "GetView"
    /\ last.T = "float"
    /\ last.cb
    /\ last.status = "IncompatibleView"

\* C4 as claimed: a construction that ends in IncompatibleView has not
\* connected the field to the page source.
C4_FailsBeforeConnect ==
    (last.op \in {"GetView", "GetCollectionView", "GetViewCollection"}
        /\ last.status = "IncompatibleView") => ~last.connected

\* C4 as amended: a construction that ends in IncompatibleView has already
\* connected the field to the page source (the check follows the connect),
\* and yields no view.
C4_FailsAfterConnect ==
    (last.op \in {"GetView", "GetCollectionView", "GetViewCollection"}
        /\ last.status = "IncompatibleView") => last.connected /\ ~last.constructed

C4_Witness ==
    /\ last.op = "GetCollectionView"
    /\ last.status = "IncompatibleView"
    /\ last.connected

IsVoidCtorCall == last.op = "GetView" /\ last.T = "void" /\ last.status # "FieldNotFound"

ResolvedId == FindFieldId(last.name, last.scope)

\* C5 as claimed: constructing RNTupleView<void> over a mappable field with
\* a read callback fails with IncompatibleView, and no such view exists.
C5_VoidViewDisallowed ==
    /\ (IsVoidCtorCall /\ isMappable(FieldTable[ResolvedId].type) /\ last.cb)
           => last.status = "IncompatibleView"
    /\ view.T = "void" => ~(view.fField.mappable /\ HasReadCallbacks(view.fField))

\* C5 as amended: constructing RNTupleView<void> never fails with
\* IncompatibleView: also over a mappable field with a read callback it
\* connects the field and yields the view over it.
C5_VoidViewAllowed ==
    IsVoidCtorCall =>
        /\ last.status = "ok"
        /\ last.constructed
        /\ last.connected
        /\ view.T = "void"
        /\ view.fField.fOnDiskId = ResolvedId
        /\ view.fField.mappable = isMappable(FieldTable[ResolvedId].type)
        /\ HasReadCallbacks(view.fField) = last.cb

C5_Witness ==
    /\ IsVoidCtorCall
    /\ last.status = "ok"
    /\ view.T = "void"
    /\ view.fField.mappable
    /\ HasReadCallbacks(view.fField)

C7_CollectionRange ==
    (last.op = "GetCollectionRange" /\ last.status = "ok") =>
        LET c == last.info.collectionStart.fClusterId
            s == last.info.collectionStart.fIndex
            n == last.info.size
            yielded == ClusterIterate(last.range)
        IN  /\ last.range = RNTupleClusterRange(c, s, s + n)
            /\ Len(yielded) = n
            /\ \A k \in 1 .. Len(yielded) : yielded[k] = RClusterIndex(c, s + k - 1)

C7_Witness ==
    /\ last.op = "GetCollectionRange"
    /\ last.status = "ok"
    /\ last.overload = "global"
    /\ last.info.size = 3
    /\ last.range.fClusterId = 1
    /\ Len(ClusterIterate(last.range)) = 3

Contains(msg, piece) == \E k \in 1 .. Len(msg) : msg[k] = piece

\* C8: GetView<T>(name) and GetCollectionView(name) resolve the name under
\* the collection view's own field id; when the collection has no child of
\* that name the call fails with FieldNotFound, no view is constructed, no
\* field is connected, and the message contains the name and the ntuple's
\* name.
C8_FieldNotFound ==
    (last.op \in {"GetView", "GetCollectionView"}
        /\ FindFieldId(last.name, last.scope) = kInvalidDescriptorId)
        => /\ last.status = "FieldNotFound"
           /\ ~last.constructed
           /\ ~last.connected
           /\ Contains(last.msg, last.name)
           /\ Contains(last.msg, GetName)

C8_Witness ==
    /\ last.op = "GetView"
    /\ last.name = "eta"
    /\ last.scope = FindFieldId("jets", RootFieldId)
    /\ FindFieldId("eta", FindFieldId("muons", RootFieldId)) # kInvalidDescriptorId
    /\ last.status = "FieldNotFound"

IsReadPath(v) == v.T = "void" \/ ~isMappable(v.T)

CalledIndex ==
    IF last.overload = "global" THEN last.index ELSE GlobalOf(view.fField, last.index)

\* C9: after a successful operator() on a view that reads (a typed view of
\* a non-mappable type, or a void view), the view's one holder contains
\* the value at the index just accessed, whatever it held before, and the
\* reference a typed view returns is the reference to that holder.
C9_HolderHasLastRead ==
    (last.op = "Call" /\ last.status = "ok" /\ IsReadPath(view)) =>
        /\ view.fValue = Data(view.fField.fOnDiskId, CalledIndex)
        /\ view.T # "void" => last.ref = [into |-> "fValue"]

C9_Witness ==
    /\ last.op = "Call"
    /\ last.status = "ok"
    /\ view.T = "string"
    /\ last.overload = "global"
    /\ last.index = 2
    /\ view.fValue = Data(view.fField.fOnDiskId, 2)

=============================================================================
